---- MODULE Spec2Model ----
(***************************************************************************)
(* Real-time fan-out layer of the polling platform: the ConnectionManager  *)
(* registry (backend/websocket.py), the inbound command handler and the    *)
(* /ws endpoint loop (backend/main.py).                                    *)
(*                                                                         *)
(* The program runs on one asyncio event loop: a task runs without         *)
(* interruption from one suspension point (an await that really waits:     *)
(* accept, receive_json, send_json) to the next.  Every action below is    *)
(* one such uninterrupted run of one task.  The transport is the           *)
(* environment: a send may succeed or raise (an Exception; cancellation of *)
(* the sending task is not modelled), a receive may return any frame or    *)
(* raise.  The order in which a for loop visits a set copy is unspecified  *)
(* in Python, so a broadcast picks its next connection nondeterministically*)
(* from the unvisited part of its copy.                                    *)
(*                                                                         *)
(* The poll endpoints (backend/main.py over backend/crud.py and the tables *)
(* of backend/database.py) are modelled the same way under SpecDomain: a   *)
(* handler runs from one await on its database session to the next, and    *)
(* the handlers of other requests run in between.                          *)
(***************************************************************************)
EXTENDS Integers, Sequences, FiniteSets, TLC

\* ---------------------------------------------------------------- bounds
\* connections, poll ids 0..MaxPollId, broadcast calls issued, and inbound
\* frames consumed (over all connections)
NumConns == 2
MaxPollId == 1
MaxBroadcasts == 2
MaxFrames == 2
\* calls of disconnect on one connection, where the methods are called directly
MaxDisconnects == 2
\* HTTP requests handled, the users that send them, and the options of a poll
NumRequests == 3
NumUsers == 2
NumOptions == 2

Conns == 1..NumConns
PollIds == 0..MaxPollId
Broadcasts == 1..MaxBroadcasts

VARIABLES
    active_connections,   \* dict poll_id -> set of connections
    subscriptions,        \* dict connection -> set of poll_ids
    all_connections,      \* set of connections
    epc,                  \* position of each connection's websocket_endpoint task
    tasks,                \* the broadcast calls (one record per call)
    issued,               \* number of broadcast calls the domain layer has issued
    pending,              \* per connection: the personal message its endpoint task is sending
    nframes,              \* number of inbound frames consumed so far
    discCount,            \* per connection: number of calls of disconnect so far
    polls,                \* table polls: dict id -> row (creator_id, is_active)
    votes,                \* table votes: set of rows (id, user_id, poll_id, option_id)
    likes,                \* table likes: set of rows (id, user_id, poll_id)
    reqs                  \* the HTTP requests (one record per request)

vars == <<active_connections, subscriptions, all_connections, epc, tasks,
          issued, pending, nframes, discCount, polls, votes, likes, reqs>>

\* the storage and the request handlers, which the fan-out layer never touches
dbvars == <<polls, votes, likes, reqs>>

\* ---------------------------------------------------------- python dicts
DictSet(d, k, v) == [x \in DOMAIN d \cup {k} |-> IF x = k THEN v ELSE d[x]]
DictDel(d, k) == [x \in DOMAIN d \ {k} |-> d[x]]
EmptyDict == [x \in {} |-> {}]

\* The manager's three fields as one value.
Manager == [ac |-> active_connections, subs |-> subscriptions, all |-> all_connections]

\* ------------------------------------------------------ ConnectionManager
\* connect, after a successful accept
\* (variant: the connection is added to all_connections without an entry in
\* subscriptions)
register_no_entry(m, ws) == [m EXCEPT !.all = m.all \cup {ws}]

register(m, ws) ==
    [m EXCEPT !.subs = DictSet(m.subs, ws, {}), !.all = m.all \cup {ws}]

\* (variant: a second subscribe of the same pair takes the subscription back)
subscribe_toggle(m, ws, poll_id) ==
    IF poll_id \in DOMAIN m.ac /\ ws \in m.ac[poll_id]
    THEN LET s == m.ac[poll_id] \ {ws}
         IN [m EXCEPT !.ac = IF s = {} THEN DictDel(m.ac, poll_id)
                                       ELSE DictSet(m.ac, poll_id, s),
                      !.subs = IF ws \in DOMAIN m.subs
                               THEN DictSet(m.subs, ws, m.subs[ws] \ {poll_id})
                               ELSE m.subs]
    ELSE [m EXCEPT !.ac = DictSet(m.ac, poll_id,
                                  (IF poll_id \in DOMAIN m.ac THEN m.ac[poll_id] ELSE {})
                                  \cup {ws}),
                   !.subs = IF ws \in DOMAIN m.subs
                            THEN DictSet(m.subs, ws, m.subs[ws] \cup {poll_id})
                            ELSE m.subs]

subscribe(m, ws, poll_id) ==
    LET ac0 == IF poll_id \notin DOMAIN m.ac THEN DictSet(m.ac, poll_id, {}) ELSE m.ac
        ac1 == DictSet(ac0, poll_id, ac0[poll_id] \cup {ws})
        subs1 == IF ws \in DOMAIN m.subs
                 THEN DictSet(m.subs, ws, m.subs[ws] \cup {poll_id})
                 ELSE m.subs
    IN [m EXCEPT !.ac = ac1, !.subs = subs1]

\* (variant: the reverse index is left as it was)
unsubscribe_forward_only(m, ws, poll_id) ==
    IF poll_id \in DOMAIN m.ac
    THEN LET s == m.ac[poll_id] \ {ws}
         IN [m EXCEPT !.ac = IF s = {} THEN DictDel(m.ac, poll_id)
                                       ELSE DictSet(m.ac, poll_id, s)]
    ELSE m

\* (variant: a topic whose last subscriber leaves keeps its entry)
unsubscribe_keep_empty(m, ws, poll_id) ==
    [m EXCEPT !.ac = IF poll_id \in DOMAIN m.ac
                     THEN DictSet(m.ac, poll_id, m.ac[poll_id] \ {ws})
                     ELSE m.ac,
              !.subs = IF ws \in DOMAIN m.subs
                       THEN DictSet(m.subs, ws, m.subs[ws] \ {poll_id})
                       ELSE m.subs]

unsubscribe(m, ws, poll_id) ==
    LET ac1 == IF poll_id \in DOMAIN m.ac
               THEN LET s == m.ac[poll_id] \ {ws}
                    IN IF s = {} THEN DictDel(m.ac, poll_id) ELSE DictSet(m.ac, poll_id, s)
               ELSE m.ac
        subs1 == IF ws \in DOMAIN m.subs
                 THEN DictSet(m.subs, ws, m.subs[ws] \ {poll_id})
                 ELSE m.subs
    IN [m EXCEPT !.ac = ac1, !.subs = subs1]

\* the loop "for poll_id in poll_ids: self.unsubscribe(websocket, poll_id)"
RECURSIVE unsubscribe_each(_, _, _)
unsubscribe_each(m, ws, poll_ids) ==
    IF poll_ids = {} THEN m
    ELSE LET p == CHOOSE x \in poll_ids : TRUE
         IN unsubscribe_each(unsubscribe(m, ws, p), ws, poll_ids \ {p})

\* (variant: the connection is taken out of every topic of the forward index,
\* whether or not the reverse index lists it)
disconnect_scan(m, ws) ==
    LET m0 == unsubscribe_each(m, ws, DOMAIN m.ac)
    IN [m0 EXCEPT !.subs = DictDel(m0.subs, ws), !.all = m0.all \ {ws}]

disconnect(m, ws) ==
    LET m1 == IF ws \in DOMAIN m.subs
              THEN LET m0 == unsubscribe_each(m, ws, m.subs[ws])
                   IN [m0 EXCEPT !.subs = DictDel(m0.subs, ws)]
              ELSE m
    IN [m1 EXCEPT !.all = m1.all \ {ws}]

\* the loop "for connection in disconnected: self.disconnect(connection)"
RECURSIVE disconnect_each(_, _)
disconnect_each(m, conns) ==
    IF conns = {} THEN m
    ELSE LET c == CHOOSE x \in conns : TRUE
         IN disconnect_each(disconnect(m, c), conns \ {c})

\* the copy broadcast_to_poll iterates over
poll_snapshot(m, poll_id) ==
    IF poll_id \in DOMAIN m.ac THEN m.ac[poll_id] ELSE {}

\* (variant: a global broadcast that skips connections with no subscription)
all_snapshot_subscribed(m) ==
    {c \in m.all : c \in DOMAIN m.subs /\ m.subs[c] # {}}

\* the copy broadcast_to_all iterates over
all_snapshot(m) == m.all

\* ------------------------------------------------------- inbound frames
\* What receive_json can produce.  kind: "close" (WebSocketDisconnect is
\* raised), "garbage" (the text is not JSON: json.loads raises), "array" (JSON
\* that is not an object: data.get raises AttributeError), "record" (a dict).
\* A record has a type ("missing" when the key is absent) and a poll_id whose
\* Python value is an int (pid = "int"), None/absent (pid = "none") or a
\* non-empty list (pid = "list": truthy and unhashable).
MkFrame(kind, type, pid, poll_id) ==
    [kind |-> kind, type |-> type, pid |-> pid, poll_id |-> poll_id]
NoFrame == MkFrame("none", "missing", "none", 0)
CommandFrames ==
    {MkFrame("record", ty, "int", p) : ty \in {"subscribe", "unsubscribe"}, p \in PollIds}
    \cup {MkFrame("record", ty, pid, 0) :
             ty \in {"subscribe", "unsubscribe"}, pid \in {"none", "list"}}
    \cup {MkFrame("record", ty, "none", 0) : ty \in {"ping", "other", "missing"}}
Frames ==
    CommandFrames
    \cup {MkFrame(k, "missing", "none", 0) : k \in {"close", "garbage", "array"}}

\* Python truth value of data.get("poll_id")
truthy(frame) ==
    \/ frame.pid = "int" /\ frame.poll_id # 0
    \/ frame.pid = "list"

\* an outbound personal message; poll_id is 0 where the message has none
MkMsg(type, poll_id) == [type |-> type, poll_id |-> poll_id]
NoMsg == MkMsg("none", 0)

\* (variant: a ping is treated like an unknown type and gets no reply)
handle_websocket_message_no_pong(m, ws, data) ==
    LET nothing == [m |-> m, send |-> <<>>, raised |-> FALSE]
        raise == [m |-> m, send |-> <<>>, raised |-> TRUE]
    IN IF data.kind # "record" THEN raise
       ELSE IF data.type = "subscribe" THEN
           IF ~truthy(data) THEN nothing
           ELSE IF data.pid = "list" THEN raise
           ELSE [m |-> subscribe(m, ws, data.poll_id),
                 send |-> <<MkMsg("subscribed", data.poll_id)>>,
                 raised |-> FALSE]
       ELSE IF data.type = "unsubscribe" THEN
           IF ~truthy(data) THEN nothing
           ELSE IF data.pid = "list" THEN raise
           ELSE [m |-> unsubscribe(m, ws, data.poll_id),
                 send |-> <<MkMsg("unsubscribed", data.poll_id)>>,
                 raised |-> FALSE]
       ELSE nothing

\* handle_websocket_message up to its first suspension: the new manager, the
\* personal message whose send it starts (at most one), and whether it raised.
handle_websocket_message(m, ws, data) ==
    LET nothing == [m |-> m, send |-> <<>>, raised |-> FALSE]
        raise == [m |-> m, send |-> <<>>, raised |-> TRUE]
    IN IF data.kind # "record" THEN raise
       ELSE IF data.type = "subscribe" THEN
           IF ~truthy(data) THEN nothing
           ELSE IF data.pid = "list" THEN raise
           ELSE [m |-> subscribe(m, ws, data.poll_id),
                 send |-> <<MkMsg("subscribed", data.poll_id)>>,
                 raised |-> FALSE]
       ELSE IF data.type = "unsubscribe" THEN
           IF ~truthy(data) THEN nothing
           ELSE IF data.pid = "list" THEN raise
           ELSE [m |-> unsubscribe(m, ws, data.poll_id),
                 send |-> <<MkMsg("unsubscribed", data.poll_id)>>,
                 raised |-> FALSE]
       ELSE IF data.type = "ping" THEN
           [m |-> m, send |-> <<MkMsg("pong", 0)>>, raised |-> FALSE]
       ELSE nothing

\* ------------------------------------------------------------- requests
Requests == 1..NumRequests
Users == 1..NumUsers
\* the options of a poll; a vote may also name an id that is no option of it
Options == 1..NumOptions
OptionIds == 0..NumOptions

\* what a request asks for: the endpoint, the authenticated user, the path
\* parameter poll_id and the body (option_id of a vote, is_active of an update)
MkInput(kind, user, poll_id, option_id, is_active) ==
    [kind |-> kind, user |-> user, poll_id |-> poll_id, option_id |-> option_id,
     is_active |-> is_active]
Inputs ==
    {MkInput("vote", u, p, o, FALSE) : u \in Users, p \in PollIds, o \in OptionIds}
    \cup {MkInput("like", u, p, 0, FALSE) : u \in Users, p \in PollIds}
    \cup {MkInput("create", u, 0, 0, FALSE) : u \in Users}
    \cup {MkInput("update", u, p, 0, a) : u \in Users, p \in PollIds, a \in BOOLEAN}
    \cup {MkInput("delete", u, p, 0, FALSE) : u \in Users, p \in PollIds}

\* a request handler: its position, its input, the local variables that
\* outlive a suspension (the row found by a lookup, 0 for none), whether its
\* write has committed, the event it has broadcast and its response status
IdleRequest ==
    [pc |-> "idle", in |-> MkInput("none", 0, 0, 0, FALSE), found |-> FALSE,
     existing |-> 0, committed |-> FALSE, event |-> "none", status |-> "none"]

\* ------------------------------------------------------------- the state
SetManager(m) ==
    /\ active_connections' = m.ac
    /\ subscriptions' = m.subs
    /\ all_connections' = m.all

\* A broadcast call.  kind, poll_id: which call; todo, cur, failed: the loop's
\* unvisited copy, the connection whose send_json it is suspended in (0: none)
\* and the set "disconnected".  begun and sent record the target set when the
\* call began and the connections a send was started on.  The message is
\* opaque to the manager: it is identified by the call.
IdleTask ==
    [pc |-> "idle", kind |-> "none", poll_id |-> 0,
     todo |-> {}, cur |-> 0, failed |-> {}, begun |-> {}, sent |-> {}]

Init ==
    /\ active_connections = EmptyDict
    /\ subscriptions = EmptyDict
    /\ all_connections = {}
    /\ epc = [c \in Conns |-> "new"]
    /\ tasks = [b \in Broadcasts |-> IdleTask]
    /\ issued = 0
    /\ pending = [c \in Conns |-> NoMsg]
    /\ nframes = 0
    /\ discCount = [c \in Conns |-> 0]
    /\ polls = EmptyDict
    /\ votes = {}
    /\ likes = {}
    /\ reqs = [r \in Requests |-> IdleRequest]

\* ------------------------------------------------- websocket_endpoint task
\* manager.connect: accept, then register.  When accept raises, the exception
\* leaves websocket_endpoint (connect is outside the try).
\* (variant: the connection is registered before accept is awaited)
Connect_register_first(ws, accepted) ==
    /\ epc[ws] = "new"
    /\ SetManager(register(Manager, ws))
    /\ epc' = [epc EXCEPT ![ws] = IF accepted THEN "recv" ELSE "failed"]
    /\ UNCHANGED <<tasks, issued, pending, nframes, discCount>>

Connect(ws, accepted) ==
    /\ epc[ws] = "new"
    /\ IF accepted
       THEN /\ SetManager(register(Manager, ws))
            /\ epc' = [epc EXCEPT ![ws] = "recv"]
       ELSE /\ UNCHANGED <<active_connections, subscriptions, all_connections>>
            /\ epc' = [epc EXCEPT ![ws] = "failed"]
    /\ UNCHANGED <<tasks, issued, pending, nframes, discCount>>

\* receive_json returns (or raises) and the loop body runs up to the next
\* suspension: inside send_personal_message's send_json, back in receive_json,
\* or out of the loop through an except clause, which calls disconnect.
Receive(ws, frame) ==
    /\ epc[ws] = "recv"
    /\ nframes < MaxFrames
    /\ nframes' = nframes + 1
    /\ LET r == handle_websocket_message(Manager, ws, frame)
       IN IF frame.kind \in {"close", "garbage"} \/ r.raised
          THEN /\ SetManager(disconnect(Manager, ws))
               /\ discCount' = [discCount EXCEPT ![ws] = @ + 1]
               /\ epc' = [epc EXCEPT ![ws] = "closed"]
               /\ UNCHANGED pending
          ELSE /\ SetManager(r.m)
               /\ IF r.send = <<>>
                  THEN UNCHANGED <<epc, pending>>
                  ELSE /\ epc' = [epc EXCEPT ![ws] = "send"]
                       /\ pending' = [pending EXCEPT ![ws] = r.send[1]]
               /\ UNCHANGED discCount
    /\ UNCHANGED <<tasks, issued>>

\* send_personal_message's send_json returns (ok) or raises; the handler
\* returns and the loop awaits receive_json again.
SendPersonalDone(ws, ok) ==
    /\ epc[ws] = "send"
    /\ IF ok
       THEN UNCHANGED <<active_connections, subscriptions, all_connections, discCount>>
       ELSE /\ SetManager(disconnect(Manager, ws))
            /\ discCount' = [discCount EXCEPT ![ws] = @ + 1]
    /\ epc' = [epc EXCEPT ![ws] = "recv"]
    /\ pending' = [pending EXCEPT ![ws] = NoMsg]
    /\ UNCHANGED <<tasks, issued, nframes>>

\* --------------------------------------------------------- broadcast calls
\* (variant: a loop over the live set instead of a copy, which drops the
\* connections removed since the call began)
remaining_live(m, task) ==
    task.todo \cap (IF task.kind = "poll" THEN poll_snapshot(m, task.poll_id) ELSE m.all)

\* the connections the for loop of a broadcast has still to visit: the rest
\* of the copy taken when the loop started, whatever the registry holds now
remaining(m, task) == task.todo

\* The body of a broadcast call from its start up to its first suspension:
\* copy the target set, then either enter send_json on a first connection or,
\* with nothing to send, run to the end (nothing failed, so no cleanup).
Begin(b, task0, snap) ==
    /\ issued' = issued + 1
    /\ IF snap = {}
       THEN tasks' = [tasks EXCEPT ![b] = [task0 EXCEPT !.pc = "done"]]
       ELSE \E c \in snap :
            tasks' = [tasks EXCEPT ![b] =
                         [task0 EXCEPT !.pc = "send", !.cur = c, !.todo = snap \ {c},
                                       !.sent = {c}]]
    /\ UNCHANGED <<active_connections, subscriptions, all_connections, epc,
                   pending, nframes, discCount>>

\* broadcast_vote_update / broadcast_like_update -> manager.broadcast_to_poll
BroadcastToPoll(b, poll_id) ==
    /\ tasks[b].pc = "idle"
    /\ b = issued + 1
    /\ Begin(b,
             [IdleTask EXCEPT !.kind = "poll", !.poll_id = poll_id,
                 !.begun = {c \in Conns : /\ poll_id \in DOMAIN active_connections
                                          /\ c \in active_connections[poll_id]}],
             poll_snapshot(Manager, poll_id))

\* broadcast_poll_created / _updated / _deleted -> manager.broadcast_to_all
BroadcastToAll(b) ==
    /\ tasks[b].pc = "idle"
    /\ b = issued + 1
    /\ Begin(b,
             [IdleTask EXCEPT !.kind = "all", !.begun = all_connections],
             all_snapshot(Manager))

\* (variant: a connection whose send raised is put back to be tried again)
after_send_retry(task, ok) ==
    IF ok THEN task
    ELSE [task EXCEPT !.failed = @ \cup {task.cur}, !.todo = @ \cup {task.cur}]

\* (variant: an exception of send_json leaves the broadcast call)
after_send_propagate(task, ok) ==
    IF ok THEN task ELSE [task EXCEPT !.pc = "raised"]

\* the try/except around send_json in the broadcast loops: a send that raised
\* is logged and its connection added to the disconnected set; the loop goes on
after_send(task, ok) ==
    IF ok THEN task ELSE [task EXCEPT !.failed = @ \cup {task.cur}]

\* The send_json a broadcast is suspended in returns (ok) or raises; the loop
\* goes on to the next connection of the copy and suspends in its send_json,
\* or, the copy exhausted, disconnects every connection whose send raised and
\* returns. An exception the except clause did not catch would end the call
\* there, the rest of the copy unvisited and nothing cleaned up.
BroadcastResume(b, ok) ==
    LET task == tasks[b]
        task1 == after_send(task, ok)
        failed1 == task1.failed
        rest == remaining(Manager, task1)
    IN /\ task.pc = "send"
       /\ IF task1.pc = "raised"
          THEN /\ tasks' = [tasks EXCEPT ![b] = task1]
               /\ UNCHANGED <<active_connections, subscriptions, all_connections, discCount>>
          ELSE IF rest # {}
          THEN /\ \E c \in rest :
                    tasks' = [tasks EXCEPT ![b] =
                                 [task1 EXCEPT !.cur = c, !.todo = task1.todo \ {c},
                                               !.sent = task1.sent \cup {c}]]
               /\ UNCHANGED <<active_connections, subscriptions, all_connections, discCount>>
          ELSE /\ tasks' = [tasks EXCEPT ![b] =
                               [task1 EXCEPT !.pc = "done", !.cur = 0, !.todo = {}]]
               /\ SetManager(disconnect_each(Manager, failed1))
               /\ discCount' = [c \in Conns |->
                                   IF c \in failed1 THEN discCount[c] + 1 ELSE discCount[c]]
       /\ UNCHANGED <<epc, issued, pending, nframes>>

\* ------------------------------------------------------- the specification
Next ==
    \/ \E ws \in Conns, accepted \in BOOLEAN : Connect(ws, accepted) /\ UNCHANGED dbvars
    \/ \E ws \in Conns, frame \in Frames : Receive(ws, frame) /\ UNCHANGED dbvars
    \/ \E ws \in Conns, ok \in BOOLEAN : SendPersonalDone(ws, ok) /\ UNCHANGED dbvars
    \/ \E b \in Broadcasts, poll_id \in PollIds :
           BroadcastToPoll(b, poll_id) /\ UNCHANGED dbvars
    \/ \E b \in Broadcasts : BroadcastToAll(b) /\ UNCHANGED dbvars
    \/ \E b \in Broadcasts, ok \in BOOLEAN : BroadcastResume(b, ok) /\ UNCHANGED dbvars

Spec == Init /\ [][Next]_vars

\* ---------------------------------------- the registry, called directly
\* The manager's methods applied one call at a time, in the orders the
\* program can call them: connect once per connection (Connect); subscribe and
\* unsubscribe by the connection's endpoint task while it runs, for any poll
\* id; disconnect by the endpoint when its loop ends (final) or by a sender
\* whose send raised, any number of times.
CallSubscribe(ws, poll_id) ==
    /\ epc[ws] = "recv"
    /\ SetManager(subscribe(Manager, ws, poll_id))
    /\ UNCHANGED <<epc, tasks, issued, pending, nframes, discCount>>

CallUnsubscribe(ws, poll_id) ==
    /\ epc[ws] = "recv"
    /\ SetManager(unsubscribe(Manager, ws, poll_id))
    /\ UNCHANGED <<epc, tasks, issued, pending, nframes, discCount>>

CallDisconnect(ws, final) ==
    /\ epc[ws] \in {"recv", "closed"}
    /\ final => epc[ws] = "recv"
    /\ discCount[ws] < MaxDisconnects
    /\ SetManager(disconnect(Manager, ws))
    /\ discCount' = [discCount EXCEPT ![ws] = @ + 1]
    /\ epc' = [epc EXCEPT ![ws] = IF final THEN "closed" ELSE @]
    /\ UNCHANGED <<tasks, issued, pending, nframes>>

NextRegistry ==
    \/ \E ws \in Conns, accepted \in BOOLEAN : Connect(ws, accepted) /\ UNCHANGED dbvars
    \/ \E ws \in Conns, poll_id \in PollIds : CallSubscribe(ws, poll_id) /\ UNCHANGED dbvars
    \/ \E ws \in Conns, poll_id \in PollIds : CallUnsubscribe(ws, poll_id) /\ UNCHANGED dbvars
    \/ \E ws \in Conns, final \in BOOLEAN : CallDisconnect(ws, final) /\ UNCHANGED dbvars

SpecRegistry == Init /\ [][NextRegistry]_vars

\* ------------------------------------------------ the request handlers
\* Every await on the database session is a suspension point at which the
\* handlers of other requests run; each request has its own session, and a
\* SELECT holds no lock once it has returned.  An action below is the run of
\* one handler from one such await to the next.  Users are authenticated and
\* exist.  A refresh that directly follows a commit is taken with the commit.
corevars == <<active_connections, subscriptions, all_connections, epc, tasks,
              issued, pending, nframes, discCount>>

\* the primary key the database gives a new row: one more than the largest
next_id(rows) ==
    IF rows = {} THEN 1
    ELSE (CHOOSE n \in {row.id : row \in rows} : \A row \in rows : row.id <= n) + 1

\* SELECT ... WHERE poll_id = :poll_id AND user_id = :user_id
rows_of(rows, poll_id, user_id) ==
    {row \in rows : row.poll_id = poll_id /\ row.user_id = user_id}

SetReq(r, req) == reqs' = [reqs EXCEPT ![r] = req]

\* the handler returns or raises: the response status is all that is left
finish(req, status) == [req EXCEPT !.pc = "done", !.status = status]

\* a request arrives and its handler runs up to its first await
StartRequest(r, input) ==
    /\ reqs[r].pc = "idle"
    /\ IF r = 1 THEN TRUE ELSE reqs[r - 1].pc # "idle"
    /\ SetReq(r, [IdleRequest EXCEPT !.in = input,
                     !.pc = CASE input.kind = "vote" -> "vote_poll"
                              [] input.kind = "like" -> "like_poll"
                              [] input.kind = "create" -> "create_write"
                              [] input.kind = "update" -> "update_check"
                              [] input.kind = "delete" -> "delete_check"])
    /\ UNCHANGED <<polls, votes, likes>>
    /\ UNCHANGED corevars

\* create_vote: "Check if poll exists and is active"
create_vote_poll(r) ==
    LET req == reqs[r]
    IN /\ req.pc = "vote_poll"
       /\ IF req.in.poll_id \in DOMAIN polls /\ polls[req.in.poll_id].is_active
          THEN SetReq(r, [req EXCEPT !.pc = "vote_option", !.found = TRUE])
          ELSE SetReq(r, finish(req, "400"))
       /\ UNCHANGED <<polls, votes, likes>>
       /\ UNCHANGED corevars

\* create_vote: "Check if option belongs to poll" (the options of a poll are
\* deleted with it)
create_vote_option(r) ==
    LET req == reqs[r]
    IN /\ req.pc = "vote_option"
       /\ IF req.in.poll_id \in DOMAIN polls /\ req.in.option_id \in Options
          THEN SetReq(r, [req EXCEPT !.pc = "vote_existing"])
          ELSE SetReq(r, finish(req, "400"))
       /\ UNCHANGED <<polls, votes, likes>>
       /\ UNCHANGED corevars

\* create_vote: "Check if user already voted"; scalar_one_or_none raises
\* MultipleResultsFound when the query returns more than one row
create_vote_existing(r) ==
    LET req == reqs[r]
        rows == rows_of(votes, req.in.poll_id, req.in.user)
    IN /\ req.pc = "vote_existing"
       /\ IF Cardinality(rows) > 1
          THEN SetReq(r, finish(req, "500"))
          ELSE IF rows = {}
          THEN SetReq(r, [req EXCEPT !.pc = "vote_write", !.existing = 0])
          ELSE \E row \in rows :
                  SetReq(r, [req EXCEPT !.pc = "vote_write", !.existing = row.id])
       /\ UNCHANGED <<polls, votes, likes>>
       /\ UNCHANGED corevars

\* db.add(Vote(...)); commit: the table has no unique constraint and SQLite
\* does not enforce the foreign keys
insert_vote(rows, user_id, poll_id, option_id) ==
    rows \cup {[id |-> next_id(rows), user_id |-> user_id, poll_id |-> poll_id,
                option_id |-> option_id]}

\* existing.option_id = option_id; commit: UPDATE votes ... WHERE id = :id
update_vote(rows, id, option_id) ==
    {IF row.id = id THEN [row EXCEPT !.option_id = option_id] ELSE row : row \in rows}

\* create_vote: "Update existing vote" or "Create new vote", and commit; the
\* UPDATE of a row that is gone raises (StaleDataError)
create_vote_write(r) ==
    LET req == reqs[r]
    IN /\ req.pc = "vote_write"
       /\ IF req.existing # 0
          THEN IF \E row \in votes : row.id = req.existing
               THEN /\ votes' = update_vote(votes, req.existing, req.in.option_id)
                    /\ SetReq(r, [req EXCEPT !.pc = "vote_reload", !.committed = TRUE])
               ELSE /\ UNCHANGED votes
                    /\ SetReq(r, finish(req, "500"))
          ELSE /\ votes' = insert_vote(votes, req.in.user, req.in.poll_id, req.in.option_id)
               /\ SetReq(r, [req EXCEPT !.pc = "vote_reload", !.committed = TRUE])
       /\ UNCHANGED <<polls, likes>>
       /\ UNCHANGED corevars

\* vote_on_poll: get_vote_counts and get_poll_by_id; poll.options of a poll
\* that is gone raises (AttributeError on None)
vote_on_poll_reload(r) ==
    LET req == reqs[r]
    IN /\ req.pc = "vote_reload"
       /\ IF req.in.poll_id \in DOMAIN polls
          THEN SetReq(r, [req EXCEPT !.pc = "vote_broadcast"])
          ELSE SetReq(r, finish(req, "500"))
       /\ UNCHANGED <<polls, votes, likes>>
       /\ UNCHANGED corevars

\* vote_on_poll: broadcast_vote_update, then the response.  With no
\* subscriber of the poll the broadcast call has nothing to send and returns
\* without a suspension.
vote_on_poll_broadcast(r) ==
    LET req == reqs[r]
    IN /\ req.pc = "vote_broadcast"
       /\ poll_snapshot(Manager, req.in.poll_id) = {}
       /\ SetReq(r, finish([req EXCEPT !.event = "vote_update"], "200"))
       /\ UNCHANGED <<polls, votes, likes>>
       /\ UNCHANGED corevars

\* a value that may be None
Some(n) == [none |-> FALSE, value |-> n]

\* toggle_poll_like after toggle_like has returned (is_liked, total_likes):
\* the 404 test, broadcast_like_update and the response
toggle_poll_like_return(r, total_likes) ==
    LET req == reqs[r]
    IN IF total_likes.none
       THEN SetReq(r, finish(req, "404"))
       ELSE /\ poll_snapshot(Manager, req.in.poll_id) = {}
            /\ SetReq(r, finish([req EXCEPT !.event = "like_update"], "200"))

\* toggle_like: "Check if poll exists"; for a poll that does not exist it
\* returns (False, 0) and the endpoint goes on
toggle_like_poll(r) ==
    LET req == reqs[r]
    IN /\ req.pc = "like_poll"
       /\ IF req.in.poll_id \in DOMAIN polls
          THEN SetReq(r, [req EXCEPT !.pc = "like_existing", !.found = TRUE])
          ELSE toggle_poll_like_return(r, Some(0))
       /\ UNCHANGED <<polls, votes, likes>>
       /\ UNCHANGED corevars

\* toggle_like: "Check if like exists"
toggle_like_existing(r) ==
    LET req == reqs[r]
        rows == rows_of(likes, req.in.poll_id, req.in.user)
    IN /\ req.pc = "like_existing"
       /\ IF Cardinality(rows) > 1
          THEN SetReq(r, finish(req, "500"))
          ELSE IF rows = {}
          THEN SetReq(r, [req EXCEPT !.pc = "like_write", !.existing = 0])
          ELSE \E row \in rows :
                  SetReq(r, [req EXCEPT !.pc = "like_write", !.existing = row.id])
       /\ UNCHANGED <<polls, votes, likes>>
       /\ UNCHANGED corevars

\* toggle_like: "Unlike" (a DELETE that matches no row only warns) or "Like",
\* and commit
toggle_like_write(r) ==
    LET req == reqs[r]
    IN /\ req.pc = "like_write"
       /\ IF req.existing # 0
          THEN likes' = {row \in likes : row.id # req.existing}
          ELSE likes' = likes \cup {[id |-> next_id(likes), user_id |-> req.in.user,
                                     poll_id |-> req.in.poll_id]}
       /\ SetReq(r, [req EXCEPT !.pc = "like_count", !.committed = TRUE])
       /\ UNCHANGED <<polls, votes>>
       /\ UNCHANGED corevars

\* toggle_like: "Get total likes", and back in toggle_poll_like
toggle_like_count(r) ==
    LET req == reqs[r]
    IN /\ req.pc = "like_count"
       /\ toggle_poll_like_return(r, Some(Cardinality({row \in likes :
                                                          row.poll_id = req.in.poll_id})))
       /\ UNCHANGED <<polls, votes, likes>>
       /\ UNCHANGED corevars

\* crud.create_poll: the poll and its options are inserted and committed
create_poll_write(r) ==
    LET req == reqs[r]
        id == IF DOMAIN polls = {} THEN 1
              ELSE (CHOOSE n \in DOMAIN polls : \A q \in DOMAIN polls : q <= n) + 1
    IN /\ req.pc = "create_write"
       /\ id <= MaxPollId
       /\ polls' = DictSet(polls, id, [creator_id |-> req.in.user, is_active |-> TRUE])
       /\ SetReq(r, [req EXCEPT !.pc = "create_reload", !.existing = id,
                                !.committed = TRUE])
       /\ UNCHANGED <<votes, likes>>
       /\ UNCHANGED corevars

\* crud.create_poll: the select of the new poll (scalar_one raises when it
\* is gone)
create_poll_reload(r) ==
    LET req == reqs[r]
    IN /\ req.pc = "create_reload"
       /\ IF req.existing \in DOMAIN polls
          THEN SetReq(r, [req EXCEPT !.pc = "create_broadcast", !.found = TRUE])
          ELSE SetReq(r, finish(req, "500"))
       /\ UNCHANGED <<polls, votes, likes>>
       /\ UNCHANGED corevars

\* create_poll: the counts are read, then broadcast_poll_created and the
\* response.  With no connection the broadcast call returns without a
\* suspension.
create_poll_broadcast(r) ==
    LET req == reqs[r]
    IN /\ req.pc = "create_broadcast"
       /\ all_snapshot(Manager) = {}
       /\ SetReq(r, finish([req EXCEPT !.event = "poll_created"], "201"))
       /\ UNCHANGED <<polls, votes, likes>>
       /\ UNCHANGED corevars

\* update_poll and delete_poll: the poll is looked up and its creator
\* compared with the user
owner_check(req) ==
    IF req.in.poll_id \notin DOMAIN polls THEN "404"
    ELSE IF polls[req.in.poll_id].creator_id # req.in.user THEN "403"
    ELSE "ok"

update_poll_check(r) ==
    LET req == reqs[r]
    IN /\ req.pc = "update_check"
       /\ IF owner_check(req) = "ok"
          THEN SetReq(r, [req EXCEPT !.pc = "update_write", !.found = TRUE])
          ELSE SetReq(r, finish(req, owner_check(req)))
       /\ UNCHANGED <<polls, votes, likes>>
       /\ UNCHANGED corevars

\* crud.update_poll: the poll is read again, changed and committed; for a
\* poll that is gone it returns None and updated_poll.id raises
update_poll_write(r) ==
    LET req == reqs[r]
    IN /\ req.pc = "update_write"
       /\ IF req.in.poll_id \in DOMAIN polls
          THEN /\ polls' = [polls EXCEPT ![req.in.poll_id].is_active = req.in.is_active]
               /\ SetReq(r, [req EXCEPT !.pc = "update_broadcast", !.committed = TRUE])
          ELSE /\ UNCHANGED polls
               /\ SetReq(r, finish(req, "500"))
       /\ UNCHANGED <<votes, likes>>
       /\ UNCHANGED corevars

\* update_poll: the counts are read, then broadcast_poll_updated and the
\* response
update_poll_broadcast(r) ==
    LET req == reqs[r]
    IN /\ req.pc = "update_broadcast"
       /\ all_snapshot(Manager) = {}
       /\ SetReq(r, finish([req EXCEPT !.event = "poll_updated"], "200"))
       /\ UNCHANGED <<polls, votes, likes>>
       /\ UNCHANGED corevars

\* delete_poll: the checks and, "Broadcast BEFORE deleting",
\* broadcast_poll_deleted; the handler then awaits crud.delete_poll
delete_poll_check(r) ==
    LET req == reqs[r]
    IN /\ req.pc = "delete_check"
       /\ IF owner_check(req) = "ok"
          THEN /\ all_snapshot(Manager) = {}
               /\ SetReq(r, [req EXCEPT !.pc = "delete_write", !.found = TRUE,
                                        !.event = "poll_deleted"])
          ELSE SetReq(r, finish(req, owner_check(req)))
       /\ UNCHANGED <<polls, votes, likes>>
       /\ UNCHANGED corevars

\* crud.delete_poll: the poll is deleted with its options, their votes and
\* its likes (ORM cascades), and committed; a poll that is gone is left alone
delete_poll_write(r) ==
    LET req == reqs[r]
        p == req.in.poll_id
    IN /\ req.pc = "delete_write"
       /\ IF p \in DOMAIN polls
          THEN /\ polls' = DictDel(polls, p)
               /\ votes' = {row \in votes : row.poll_id # p}
               /\ likes' = {row \in likes : row.poll_id # p}
               /\ SetReq(r, finish([req EXCEPT !.committed = TRUE], "204"))
          ELSE /\ UNCHANGED <<polls, votes, likes>>
               /\ SetReq(r, finish(req, "204"))
       /\ UNCHANGED corevars

NextDomain ==
    \/ \E r \in Requests, input \in Inputs : StartRequest(r, input)
    \/ \E r \in Requests : create_vote_poll(r)
    \/ \E r \in Requests : create_vote_option(r)
    \/ \E r \in Requests : create_vote_existing(r)
    \/ \E r \in Requests : create_vote_write(r)
    \/ \E r \in Requests : vote_on_poll_reload(r)
    \/ \E r \in Requests : vote_on_poll_broadcast(r)
    \/ \E r \in Requests : toggle_like_poll(r)
    \/ \E r \in Requests : toggle_like_existing(r)
    \/ \E r \in Requests : toggle_like_write(r)
    \/ \E r \in Requests : toggle_like_count(r)
    \/ \E r \in Requests : create_poll_write(r)
    \/ \E r \in Requests : create_poll_reload(r)
    \/ \E r \in Requests : create_poll_broadcast(r)
    \/ \E r \in Requests : update_poll_check(r)
    \/ \E r \in Requests : update_poll_write(r)
    \/ \E r \in Requests : update_poll_broadcast(r)
    \/ \E r \in Requests : delete_poll_check(r)
    \/ \E r \in Requests : delete_poll_write(r)

SpecDomain == Init /\ [][NextDomain]_vars

TypeOK ==
    /\ DOMAIN active_connections \subseteq PollIds
    /\ \A p \in DOMAIN active_connections : active_connections[p] \subseteq Conns
    /\ DOMAIN subscriptions \subseteq Conns
    /\ \A c \in DOMAIN subscriptions : subscriptions[c] \subseteq PollIds
    /\ all_connections \subseteq Conns
    /\ epc \in [Conns -> {"new", "recv", "send", "closed", "failed"}]
    /\ issued \in 0..MaxBroadcasts
    /\ nframes \in 0..MaxFrames
    /\ DOMAIN polls \subseteq PollIds \ {0}
    /\ \A row \in votes :
          row.user_id \in Users /\ row.poll_id \in PollIds /\ row.option_id \in Options
    /\ \A row \in likes : row.user_id \in Users /\ row.poll_id \in PollIds
    /\ \A r \in Requests :
          /\ reqs[r].pc = "idle" <=> reqs[r].in.kind = "none"
          /\ reqs[r].pc # "idle" => reqs[r].in \in Inputs
          /\ reqs[r].status # "none" <=> reqs[r].pc = "done"

\* ------------------------------------------------------------ properties
Subscribers(t) ==
    IF t \in DOMAIN active_connections THEN active_connections[t] ELSE {}

InSomeTopic(c) == \E t \in DOMAIN active_connections : c \in active_connections[t]

Absent(c) ==
    /\ ~InSomeTopic(c)
    /\ c \notin DOMAIN subscriptions
    /\ c \notin all_connections

\* the number of tasks that are inside send_json on connection c
SendersOn(c) ==
    Cardinality({b \in Broadcasts : tasks[b].pc = "send" /\ tasks[b].cur = c})
    + (IF epc[c] = "send" THEN 1 ELSE 0)

\* C1: in every reachable state the two indices agree: c is in
\* active_connections[t] if and only if t is in subscriptions[c].
C1_IndicesAgree ==
    \A c \in Conns, t \in PollIds :
        (t \in DOMAIN active_connections /\ c \in active_connections[t])
        <=> (c \in DOMAIN subscriptions /\ t \in subscriptions[c])

\* C2: after any call of disconnect(c), in whatever state it was called, c is
\* in no set of active_connections, has no entry in subscriptions and is not
\* in all_connections.
C2_DisconnectRemovesAll ==
    [][\A c \in Conns : discCount'[c] # discCount[c] => Absent(c)']_vars

\* C3: a topic broadcast starts a send only on connections that were in the
\* topic's subscriber set when the call began, and by the time it returns it
\* has started one on every such connection, whatever the other tasks did to
\* the registry in between.
C3_TopicFanout ==
    \A b \in Broadcasts :
        tasks[b].kind = "poll" =>
            /\ tasks[b].sent \subseteq tasks[b].begun
            /\ tasks[b].pc = "done" => tasks[b].sent = tasks[b].begun

\* C3 witness: a topic broadcast is still suspended in a send while a
\* connection that subscribed to its topic after the call began is in the
\* subscriber set, and has not been sent the event.
C3_Witness ==
    \E b \in Broadcasts :
        /\ tasks[b].kind = "poll"
        /\ tasks[b].pc = "send"
        /\ \E d \in Subscribers(tasks[b].poll_id) : d \notin tasks[b].begun /\ d \notin tasks[b].sent

\* C4: when a topic broadcast in which a send failed returns, every other
\* subscriber of the snapshot has been attempted and the failing connections
\* are in no topic's subscriber set.
C4_FailedSubscriberEvicted ==
    [][\A b \in Broadcasts :
          (tasks[b].pc = "send" /\ tasks'[b].pc = "done" /\ tasks'[b].kind = "poll") =>
              /\ tasks'[b].sent = tasks'[b].begun
              /\ \A c \in tasks'[b].failed : ~InSomeTopic(c)']_vars

\* C5: a global broadcast that has returned has started a send on every
\* connection that was in all_connections when the call began, whatever the
\* connection's subscription set.
C5_GlobalFanout ==
    \A b \in Broadcasts :
        (tasks[b].kind = "all" /\ tasks[b].pc = "done") =>
            tasks[b].begun \subseteq tasks[b].sent

\* C5 witness: a global broadcast has returned after sending to a connection
\* that has no subscription and to one that has some.
C5_Witness ==
    \E b \in Broadcasts :
        /\ tasks[b].kind = "all"
        /\ tasks[b].pc = "done"
        /\ \E c, d \in tasks[b].sent :
              /\ c \in DOMAIN subscriptions /\ subscriptions[c] = {}
              /\ d \in DOMAIN subscriptions /\ subscriptions[d] # {}

\* C6: for one connection, the sends of two broadcast calls start in the
\* order the calls were issued: no call starts a send on c after a call
\* issued later has already started its send on c.
C6_PerConnectionOrder ==
    [][\A b, b2 \in Broadcasts, c \in Conns :
          (b < b2 /\ c \in tasks'[b].sent /\ c \notin tasks[b].sent) =>
              c \notin tasks[b2].sent]_vars

\* C7: at no time are two tasks inside send_json on the same connection.
C7_SendsSerialized == \A c \in Conns : SendersOn(c) <= 1

\* C8: disconnect is invoked exactly once over a connection's lifetime: never
\* twice, and once when the endpoint's receive loop has ended.
C8_DisconnectOnce ==
    \A c \in Conns :
        /\ discCount[c] <= 1
        /\ epc[c] = "closed" => discCount[c] = 1

\* an inbound message that is not a well-formed subscribe, unsubscribe or ping
Malformed(frame) ==
    \/ frame.kind \in {"garbage", "array"}
    \/ /\ frame.kind = "record"
       /\ \/ frame.type \in {"other", "missing"}
          \/ frame.type \in {"subscribe", "unsubscribe"} /\ frame.pid # "int"

\* C9: a malformed inbound message is ignored: the registry is unchanged,
\* no send is started, and the endpoint goes on to await the next message.
C9_MalformedIgnored ==
    [][\A ws \in Conns, frame \in Frames :
          (Malformed(frame) /\ Receive(ws, frame)) =>
              /\ UNCHANGED <<active_connections, subscriptions, all_connections>>
              /\ UNCHANGED pending
              /\ epc'[ws] = "recv"]_vars

\* C10: for every integer topic t, a subscribe{t} from a registered
\* connection adds it to the subscriber set of t in both indices and starts
\* exactly one send, of subscribed{t}, to that connection and to no other.
C10_SubscribeAcknowledged ==
    [][\A ws \in Conns, t \in PollIds :
          (ws \in DOMAIN subscriptions
           /\ Receive(ws, MkFrame("record", "subscribe", "int", t))) =>
              /\ ws \in Subscribers(t)'
              /\ ws \in DOMAIN subscriptions' /\ t \in subscriptions'[ws]
              /\ epc'[ws] = "send" /\ pending'[ws] = MkMsg("subscribed", t)
              /\ \A o \in Conns \ {ws} : pending'[o] = pending[o] /\ epc'[o] = epc[o]
              /\ tasks' = tasks]_vars

\* C11: for every integer topic t, an unsubscribe{t} from a registered
\* connection leaves it out of the subscriber set of t in both indices and
\* starts the send of unsubscribed{t} to it, subscribed before or not; and a
\* topic broadcast never begins with a target that is not in the forward
\* index of its topic (so none reaches the connection until it subscribes
\* again).
C11_UnsubscribeAcknowledged ==
    [][/\ \A ws \in Conns, t \in PollIds :
             (ws \in DOMAIN subscriptions
              /\ Receive(ws, MkFrame("record", "unsubscribe", "int", t))) =>
                 /\ ws \notin Subscribers(t)'
                 /\ ws \in DOMAIN subscriptions' /\ t \notin subscriptions'[ws]
                 /\ epc'[ws] = "send" /\ pending'[ws] = MkMsg("unsubscribed", t)
       /\ \A b \in Broadcasts :
             (tasks[b].pc = "idle" /\ tasks'[b].kind = "poll") =>
                 tasks'[b].sent \cup tasks'[b].todo \subseteq Subscribers(tasks'[b].poll_id)
      ]_vars

\* C12: no broadcast that begins after disconnect(c) was called has c among
\* the connections it sends to.
C12_NoSendAfterDisconnect ==
    [][\A b \in Broadcasts, c \in Conns :
          (tasks[b].pc = "idle" /\ tasks'[b].pc # "idle" /\ discCount[c] > 0) =>
              c \notin tasks'[b].sent \cup tasks'[b].todo]_vars

\* C13: when the receive loop ends on a transport close the connection is
\* absent from all_connections, from the reverse index and from every topic's
\* subscriber set, and a closed connection that is absent stays absent.
C13_CleanAfterClose ==
    [][\A c \in Conns :
          /\ Receive(c, MkFrame("close", "missing", "none", 0)) => Absent(c)'
          /\ (epc[c] = "closed" /\ Absent(c)) => Absent(c)']_vars

\* C14: after every call of subscribe or unsubscribe, the reverse index of a
\* registered connection holds exactly the topics whose forward-index set
\* contains the connection.
C14_ReverseMatchesForward ==
    \A c \in DOMAIN subscriptions :
        subscriptions[c] = {t \in PollIds : c \in Subscribers(t)}

\* C14 witness: a registered connection is subscribed to some topics and not
\* to others, poll 0 among its topics, after another connection was removed.
C14_Witness ==
    \E c \in DOMAIN subscriptions, d \in Conns :
        /\ 0 \in subscriptions[c]
        /\ subscriptions[c] # PollIds
        /\ discCount[d] > 0

\* C15: subscribe is idempotent: in every registry state, for every
\* connection and topic, subscribing twice leaves the state that subscribing
\* once leaves, and subscribing an already subscribed pair changes nothing.
C15_SubscribeIdempotent ==
    \A c \in Conns, t \in PollIds :
        LET once == subscribe(Manager, c, t)
        IN /\ subscribe(once, c, t) = once
           /\ (c \in Subscribers(t) /\ c \in DOMAIN subscriptions /\ t \in subscriptions[c])
                 => once = Manager

\* C15 witness: one connection is subscribed in both indices, another is in
\* the forward index only (it subscribed after it was removed).
C15_Witness ==
    \E c, d \in Conns, t \in PollIds :
        /\ c \in Subscribers(t) /\ c \in DOMAIN subscriptions /\ t \in subscriptions[c]
        /\ d \in Subscribers(t) /\ d \notin DOMAIN subscriptions

\* C16: no key of active_connections maps to an empty set; unsubscribe
\* applied twice leaves the state that applying it once leaves; applied to a
\* connection that is not subscribed to the topic it changes nothing.
C16_NoEmptyTopic ==
    /\ \A t \in DOMAIN active_connections : active_connections[t] # {}
    /\ \A c \in Conns, t \in PollIds :
          LET once == unsubscribe(Manager, c, t)
          IN /\ unsubscribe(once, c, t) = once
             /\ c \notin Subscribers(t) => once = Manager

\* C16 witness: a connection is the last subscriber of a topic, and
\* unsubscribing it deletes the topic's entry.
C16_Witness ==
    \E c \in Conns, t \in PollIds :
        /\ Subscribers(t) = {c}
        /\ c \in DOMAIN subscriptions /\ t \in subscriptions[c]
        /\ t \notin DOMAIN unsubscribe(Manager, c, t).ac

\* C17: disconnect is idempotent: applied twice it leaves the state that
\* applying it once leaves; on a connection already removed it changes
\* nothing; on a registered connection with no subscription it removes the
\* connection and leaves active_connections alone.
C17_DisconnectIdempotent ==
    \A c \in Conns :
        LET once == disconnect(Manager, c)
        IN /\ disconnect(once, c) = once
           /\ (c \notin DOMAIN subscriptions /\ c \notin all_connections) => once = Manager
           /\ (c \in DOMAIN subscriptions /\ subscriptions[c] = {}) =>
                 /\ once.ac = active_connections
                 /\ c \notin DOMAIN once.subs /\ c \notin once.all

\* C17 witness: disconnect has been called twice on a connection, which has
\* no entry left in subscriptions or all_connections, while another
\* connection is registered with no subscription.
C17_Witness ==
    \E c, d \in Conns :
        /\ discCount[c] >= 2
        /\ c \notin DOMAIN subscriptions /\ c \notin all_connections
        /\ d \in DOMAIN subscriptions /\ subscriptions[d] = {}

\* C18: a connect whose accept succeeds leaves the connection in
\* all_connections, with an empty topic set in subscriptions and in no
\* topic's subscriber set, and leaves every other entry as it was; a connect
\* whose accept fails leaves the three collections unchanged and ends the
\* endpoint with the error (it never enters its receive loop).
C18_ConnectRegisters ==
    [][\A ws \in Conns :
          /\ Connect(ws, TRUE) =>
                /\ ws \in all_connections'
                /\ ws \in DOMAIN subscriptions' /\ subscriptions'[ws] = {}
                /\ ~InSomeTopic(ws)'
                /\ active_connections' = active_connections
                /\ all_connections' = all_connections \cup {ws}
                /\ \A d \in DOMAIN subscriptions : d # ws =>
                      d \in DOMAIN subscriptions' /\ subscriptions'[d] = subscriptions[d]
                /\ epc'[ws] = "recv"
          /\ Connect(ws, FALSE) =>
                /\ UNCHANGED <<active_connections, subscriptions, all_connections>>
                /\ epc'[ws] = "failed"
      ]_vars

\* C18 witness: one connection whose accept failed is in none of the
\* collections while another was registered next to existing subscriptions.
C18_Witness ==
    \E c, d \in Conns :
        /\ epc[c] = "failed" /\ Absent(c)
        /\ epc[d] = "recv" /\ d \in all_connections /\ d \in DOMAIN subscriptions
        /\ active_connections # EmptyDict

\* C19: no broadcast call ends with an exception: whatever the outcomes of
\* its sends, a call that has started is either suspended in a send or has
\* returned, having visited its whole copy and recorded the failed sends.
C19_BroadcastNeverRaises ==
    \A b \in Broadcasts :
        /\ tasks[b].pc \in {"idle", "send", "done"}
        /\ tasks[b].pc = "done" =>
              /\ tasks[b].todo = {}
              /\ tasks[b].failed \subseteq tasks[b].sent

\* C19 witness: one broadcast returned after some of its sends failed and
\* others succeeded, another returned after every one of its sends failed.
C19_Witness ==
    \E b1, b2 \in Broadcasts :
        /\ tasks[b1].pc = "done"
        /\ tasks[b1].failed # {} /\ tasks[b1].failed # tasks[b1].sent
        /\ tasks[b2].pc = "done"
        /\ tasks[b2].sent # {} /\ tasks[b2].failed = tasks[b2].sent

\* C20: a failed send of send_personal_message evicts the connection: when
\* the call returns the connection is in no topic's subscriber set, has no
\* subscriptions entry and is not in all_connections, and the endpoint, to
\* which nothing was raised, goes back to receive_json.
C20_FailedUnicastEvicts ==
    [][\A ws \in Conns :
          SendPersonalDone(ws, FALSE) => (Absent(ws)' /\ epc'[ws] = "recv")]_vars

\* C21: a ping from a connection starts the send of one pong to that
\* connection and of nothing else, and changes none of the three
\* collections; when that send succeeds the collections are still unchanged
\* and the endpoint waits for the next frame; a pong is never started by any
\* other step.
C21_PingPong ==
    [][\A ws \in Conns :
          /\ Receive(ws, MkFrame("record", "ping", "none", 0)) =>
                /\ UNCHANGED <<active_connections, subscriptions, all_connections>>
                /\ epc'[ws] = "send" /\ pending'[ws] = MkMsg("pong", 0)
                /\ \A d \in Conns \ {ws} : pending'[d] = pending[d]
                /\ UNCHANGED tasks
          /\ (pending[ws].type = "pong" /\ SendPersonalDone(ws, TRUE)) =>
                /\ UNCHANGED <<active_connections, subscriptions, all_connections>>
                /\ epc'[ws] = "recv" /\ pending'[ws] = NoMsg
          /\ (pending'[ws].type = "pong" /\ pending[ws].type # "pong") =>
                Receive(ws, MkFrame("record", "ping", "none", 0))
      ]_vars

\* C21 witness: a pong to a subscribed connection is being sent while
\* another connection is subscribed too.
C21_Witness ==
    \E c, d \in Conns :
        /\ c # d
        /\ epc[c] = "send" /\ pending[c] = MkMsg("pong", 0)
        /\ InSomeTopic(c) /\ c \in DOMAIN subscriptions
        /\ d \in all_connections

\* C24: within one broadcast call a send is started on a connection at most
\* once: each send the call starts is on a connection of the copy taken at
\* its start that it has not visited before; the visited and the unvisited
\* connections together are always that copy, whatever other tasks do to the
\* registry while the call is suspended; and no other task's step changes
\* what the call has left to visit.
C24_OneAttemptOverSnapshot ==
    [][\A b \in Broadcasts :
          /\ (tasks'[b] # tasks[b] /\ tasks'[b].pc = "send") =>
                /\ tasks'[b].cur \notin tasks[b].sent
                /\ tasks'[b].cur \in tasks'[b].begun
                /\ tasks'[b].sent = tasks[b].sent \cup {tasks'[b].cur}
          /\ tasks'[b].pc # "idle" =>
                /\ tasks'[b].sent \cap tasks'[b].todo = {}
                /\ tasks'[b].sent \cup tasks'[b].todo = tasks'[b].begun
          /\ tasks'[b].pc = "done" => tasks'[b].sent = tasks'[b].begun
          /\ (tasks[b].pc = "send" /\ tasks'[b].pc = "send" /\ tasks'[b].cur = tasks[b].cur) =>
                tasks'[b] = tasks[b]
      ]_vars

\* C24 witness: a broadcast has returned after a failed send, having visited
\* two connections, one of them a connection whose send did not fail in
\* this call and which another task has disconnected.
C24_Witness ==
    \E b \in Broadcasts, c \in Conns :
        /\ tasks[b].pc = "done"
        /\ tasks[b].failed # {}
        /\ Cardinality(tasks[b].sent) >= 2
        /\ c \in tasks[b].sent /\ discCount[c] > 0 /\ c \notin tasks[b].failed

\* a connection as connect and subscribe leave it: in all_connections, with
\* a subscriptions entry that lists exactly the topic sets it is in
Present(c) ==
    /\ c \in all_connections
    /\ c \in DOMAIN subscriptions
    /\ \A t \in PollIds : c \in Subscribers(t) <=> t \in subscriptions[c]

C27_AllIsReverseKeys == all_connections = DOMAIN subscriptions

\* C27 witness: one connection is registered, with an empty topic set, and
\* another has been removed from both collections while a topic's subscriber
\* set still holds it.
C27_Witness ==
    \E c, d \in Conns :
        /\ c \in all_connections /\ c \in DOMAIN subscriptions /\ subscriptions[c] = {}
        /\ d \notin all_connections /\ d \notin DOMAIN subscriptions
        /\ discCount[d] > 0 /\ InSomeTopic(d)

\* C22: a request broadcasts its event only after its storage write has
\* committed: in the step in which a handler issues its broadcast, for every
\* kind of request, its write is already committed.
C22_BroadcastAfterCommit ==
    [][\A r \in Requests :
          (reqs[r].event = "none" /\ reqs'[r].event # "none") => reqs[r].committed]_vars

\* C23: the votes table never holds more than one row for a (user, poll)
\* pair, under any interleaving of requests, and a vote of a user who has a
\* row for the poll leaves that one row, with the option of the new vote.
C23_OneVotePerUserPoll ==
    [][/\ \A u \in Users, p \in PollIds : Cardinality(rows_of(votes', p, u)) <= 1
       /\ \A r \in Requests :
             (create_vote_write(r) /\ reqs'[r].committed
              /\ rows_of(votes, reqs[r].in.poll_id, reqs[r].in.user) # {}) =>
                 \E row \in votes' :
                    /\ rows_of(votes', reqs[r].in.poll_id, reqs[r].in.user) = {row}
                    /\ row.option_id = reqs[r].in.option_id
      ]_vars

\* C26: a like request for a poll that does not exist ends with 404 and
\* broadcasts nothing; a like_update is broadcast only by a request that
\* found its poll.
C26_LikeMissingPoll ==
    \A r \in Requests :
        reqs[r].in.kind = "like" =>
            /\ (reqs[r].pc = "done" /\ ~reqs[r].found) =>
                  (reqs[r].status = "404" /\ reqs[r].event = "none")
            /\ reqs[r].event = "like_update" => reqs[r].found

====
